---- MODULE Spec2Model ----
(***************************************************************************)
(* Shading-and-production simulation engine of the Solar AI Platform       *)
(* (advanced shading analysis v2): solar position, clear-sky irradiance,   *)
(* shadow projection, panel efficiency and the temporal aggregator that    *)
(* drives them over the representative-day sampling grid.                  *)
(*                                                                         *)
(* Number representation.  Real-valued quantities are fixed-point          *)
(* integers: angles in whole degrees, sines/cosines/fractions/efficiency   *)
(* in thousandths (Scale), irradiance and production in W/m2, loss         *)
(* percentages in tenths of a percent, lengths in whole metres.  Roof and  *)
(* obstruction polygons are rectilinear rings on the metre lattice, so an  *)
(* area is a number of unit cells.                                         *)
(***************************************************************************)
EXTENDS Integers, Sequences, FiniteSets, TLC

(***************************************************************************)
(* Bounds of the model (not program constants).                            *)
(***************************************************************************)
MaxPlanes == 2

MaxObstructions == 2

MaxCalls == 3

(***************************************************************************)
(* Program constants.                                                      *)
(***************************************************************************)
Scale == 1000

SolarConstant == 1367

ClampElevationDeg == 2

RepresentativeDay == 15

FirstHour == 6

LastHour == 18

PeakStartHour == 10

PeakEndHour == 16

ReferenceTempC == 25

TempCoeffPerMille == 4

AmbientTempC == 25

LowBand == 50

ModerateBand == 150

SignificantBand == 300

(***************************************************************************)
(* Fixed-point trigonometry.                                               *)
(***************************************************************************)
Abs(x) == IF x < 0 THEN -x ELSE x

Min2(a, b) == IF a < b THEN a ELSE b

Max2(a, b) == IF a > b THEN a ELSE b

\* round(n / d) for d > 0, halves rounded up
RoundDiv(n, d) == (2 * n + d) \div (2 * d)

\* 1000 * sin(d degrees), d = 0..90
SinTable ==
  <<
    0, 17, 35, 52, 70, 87, 105, 122, 139, 156, 174, 191, 208,
    225, 242, 259, 276, 292, 309, 326, 342, 358, 375, 391, 407, 423,
    438, 454, 469, 485, 500, 515, 530, 545, 559, 574, 588, 602, 616,
    629, 643, 656, 669, 682, 695, 707, 719, 731, 743, 755, 766, 777,
    788, 799, 809, 819, 829, 839, 848, 857, 866, 875, 883, 891, 899,
    906, 914, 921, 927, 934, 940, 946, 951, 956, 961, 966, 970, 974,
    978, 982, 985, 988, 990, 993, 995, 996, 998, 999, 999, 1000, 1000
  >>

SinD(d) ==
  LET a == d % 360
  IN  IF a <= 90 THEN SinTable[a + 1]
      ELSE IF a <= 180 THEN SinTable[180 - a + 1]
      ELSE IF a <= 270 THEN -SinTable[a - 180 + 1]
      ELSE -SinTable[360 - a + 1]

CosD(d) == SinD(d + 90)

\* degrees of arcsin(s / 1000), rounded away from zero, so that the sign of
\* the angle is the sign of the sine: the first table angle whose sine is >= |s|
ArcSinD(s) ==
  LET m == Min2(Abs(s), Scale)
      d == Cardinality({k \in 0..90 : SinTable[k + 1] < m})
  IN  IF s < 0 THEN -d ELSE d

\* degrees (0..180) of arccos(c / 1000): the first angle whose cosine is <= c
ArcCosD(c) ==
  LET m == Max2(Min2(c, Scale), -Scale)
  IN  Cardinality({k \in 0..180 : CosD(k) > m})

(***************************************************************************)
(* SolarPositionCalculator.  The Julian-day / mean-longitude / equation-   *)
(* of-centre chain depends on the date only; on the twelve representative  *)
(* days it yields the declination and equation of time tabulated here      *)
(* (whole degrees; equation of time expressed as hour-angle degrees).      *)
(***************************************************************************)
DeclinationTable == << -21, -13, -2, 10, 19, 23, 21, 14, 3, -9, -19, -23 >>

EquationOfTimeTable == << -2, -4, -2, 0, 1, 0, -2, -1, 1, 4, 4, 1 >>

\* local time is the zone time of the location's 15-degree zone
TimeZone(lon) == RoundDiv(lon, 15)

\* HA = true solar time / 4 - 180
HourAngle(lon, month, hour) ==
  15 * hour + EquationOfTimeTable[month] + lon - 15 * TimeZone(lon) - 180

\* sin(elevation) = sin(lat) sin(dec) + cos(lat) cos(dec) cos(HA)
SinElevation(lat, dec, ha) ==
  (SinD(lat) * SinD(dec) + ((CosD(lat) * CosD(dec)) \div Scale) * CosD(ha))
    \div Scale

\* azimuth = arccos((sin(lat) cos(zenith) - sin(dec)) / (cos(lat) sin(zenith)))
\* with the sign correction on the hour angle
Azimuth(lat, dec, ha, elevation) ==
  LET cosZenith == SinD(elevation)
      sinZenith == CosD(elevation)
      denom == (CosD(lat) * sinZenith) \div Scale
      ratio == ((((SinD(lat) * cosZenith) \div Scale) - SinD(dec)) * Scale)
                 \div denom
      theta == ArcCosD(ratio)
  IN  IF denom = 0 THEN (IF lat > 0 THEN 180 ELSE 0)
      ELSE IF ha > 0 THEN (theta + 180) % 360
      ELSE (540 - theta) % 360

calculate_sun_position(latitude, longitude, month, hour) ==
  LET dec == DeclinationTable[month]
      ha == HourAngle(longitude, month, hour)
      el == ArcSinD(SinElevation(latitude, dec, ha))
  IN  [azimuth |-> Azimuth(latitude, dec, ha, el), elevation |-> el]

(***************************************************************************)
(* ClearSkyIrradianceModel.  1367 * 0.7^(AM^0.678) with the Kasten-Young   *)
(* air mass, tabulated for elevation 1..90 degrees.                        *)
(***************************************************************************)
IrradianceTable ==
  <<
    52, 95, 144, 193, 241, 286, 328, 367, 402, 435, 465, 493, 519,
    543, 565, 586, 605, 623, 640, 656, 671, 685, 698, 711, 722, 734,
    744, 755, 764, 773, 782, 791, 798, 806, 813, 820, 827, 833, 839,
    845, 851, 856, 861, 866, 871, 875, 880, 884, 888, 892, 896, 899,
    903, 906, 909, 912, 915, 918, 920, 923, 925, 927, 930, 932, 934,
    936, 938, 939, 941, 942, 944, 945, 947, 948, 949, 950, 951, 952,
    953, 953, 954, 955, 955, 956, 956, 956, 957, 957, 957, 957
  >>

Irradiance(elevation) ==
  IF elevation <= 0 THEN 0 ELSE IrradianceTable[Min2(elevation, 90)]

(***************************************************************************)
(* PanelEfficiencyModel.                                                   *)
(***************************************************************************)
ClampUnit(x) == Max2(0, Min2(x, Scale))

\* cos(AOI) = sin(e) cos(tilt) + cos(e) sin(tilt) cos(sun_az - panel_az)
CosAOI(sunAz, sunEl, tilt, panelAz) ==
  (SinD(sunEl) * CosD(tilt)
     + ((CosD(sunEl) * SinD(tilt)) \div Scale) * CosD(sunAz - panelAz))
    \div Scale

\* temp_factor = 1 - 0.004 * (temperature - 25)
TempFactor(tempC) == Scale - TempCoeffPerMille * (tempC - ReferenceTempC)

\* variant: the product of the two factors as they come
EfficiencyUnclamped(sunAz, sunEl, tilt, panelAz, tempC) ==
  (CosAOI(sunAz, sunEl, tilt, panelAz) * TempFactor(tempC)) \div Scale

\* efficiency = cos(AOI) * temp_factor, each factor clamped to [0,1]
Efficiency(sunAz, sunEl, tilt, panelAz, tempC) ==
  (ClampUnit(CosAOI(sunAz, sunEl, tilt, panelAz)) * ClampUnit(TempFactor(tempC)))
    \div Scale

(***************************************************************************)
(* Geometry.  A ring is a sequence of lattice points <<x, y>>, x east and  *)
(* y north.                                                                *)
(***************************************************************************)
\* twice the signed area enclosed by the ring (shoelace formula)
Shoelace(ring) ==
  LET partial[i \in 0..(Len(ring) - 1)] ==
        IF i = 0 THEN 0
        ELSE partial[i - 1]
               + ring[i][1] * ring[i + 1][2] - ring[i + 1][1] * ring[i][2]
  IN  IF Len(ring) = 0 THEN 0 ELSE partial[Len(ring) - 1]

RingArea2(ring) == Abs(Shoelace(ring))

\* >= 3 distinct vertices, closed, area > 0
ValidPolygon(ring) ==
  /\ Len(ring) >= 4
  /\ ring[1] = ring[Len(ring)]
  /\ Cardinality({ring[i] : i \in 1..Len(ring)}) >= 3
  /\ RingArea2(ring) > 0

\* the unit cell with lower-left corner <<x, y>> lies inside the ring when a ray
\* from its centre towards +x crosses an odd number of vertical edges
CellInside(ring, x, y) ==
  Cardinality({i \in 1..(Len(ring) - 1) :
                 /\ ring[i][1] = ring[i + 1][1]
                 /\ ring[i][1] > x
                 /\ Min2(ring[i][2], ring[i + 1][2]) <= y
                 /\ y + 1 <= Max2(ring[i][2], ring[i + 1][2])}) % 2 = 1

Cells(ring) ==
  LET xs == {ring[i][1] : i \in 1..Len(ring)}
      ys == {ring[i][2] : i \in 1..Len(ring)}
      x0 == CHOOSE a \in xs : \A b \in xs : a <= b
      x1 == CHOOSE a \in xs : \A b \in xs : a >= b
      y0 == CHOOSE a \in ys : \A b \in ys : a <= b
      y1 == CHOOSE a \in ys : \A b \in ys : a >= b
  IN  {c \in (x0..(x1 - 1)) \X (y0..(y1 - 1)) : CellInside(ring, c[1], c[2])}

(***************************************************************************)
(* ShadowProjector.                                                        *)
(***************************************************************************)
\* shadow_direction = (sun_azimuth + 180) mod 360
ShadowDirection(sunAz) == (sunAz + 180) % 360

\* shadow_length = height / tan(elevation); dx = length sin(direction),
\* dy = length cos(direction); rounded to whole metres
ShadowOffset(height, sunAz, sunEl) ==
  LET dir == ShadowDirection(sunAz)
  IN  << RoundDiv(height * CosD(sunEl) * SinD(dir), SinD(sunEl) * Scale),
         RoundDiv(height * CosD(sunEl) * CosD(dir), SinD(sunEl) * Scale) >>

\* variant: the shadow length computed at every positive elevation
ShadowCellsUnclamped(roofCells, obstructionCells, height, sunAz, sunEl) ==
  LET off == ShadowOffset(height, sunAz, sunEl)
  IN  {c \in roofCells : << c[1] - off[1], c[2] - off[2] >> \in obstructionCells}

\* the cells of the roof plane covered by the translated obstruction footprint;
\* below the near-horizon clamp the instant counts as night (full occlusion)
ShadowCells(roofCells, obstructionCells, height, sunAz, sunEl) ==
  IF sunEl < ClampElevationDeg THEN roofCells
  ELSE LET off == ShadowOffset(height, sunAz, sunEl)
       IN  {c \in roofCells : << c[1] - off[1], c[2] - off[2] >> \in obstructionCells}

\* shaded_fraction of one obstruction: intersection_area / roof_plane_area
ShadedFraction(roofCells, obstructionCells, height, sunAz, sunEl) ==
  (Scale * Cardinality(ShadowCells(roofCells, obstructionCells, height, sunAz, sunEl)))
    \div Cardinality(roofCells)

\* variant: the per-obstruction fractions added up
CombinedShadedSum(roofCells, obstructionSet, cellsOf, sunAz, sunEl) ==
  LET ids == {ob.id : ob \in obstructionSet}
      top == IF ids = {} THEN 0 ELSE CHOOSE n \in ids : \A k \in ids : k <= n
      total[n \in 0..top] ==
        IF n = 0 THEN 0
        ELSE total[n - 1]
               + (IF n \in ids
                  THEN LET ob == CHOOSE o \in obstructionSet : o.id = n
                       IN  ShadedFraction(roofCells, cellsOf[ob.polygon], ob.height_m,
                                          sunAz, sunEl)
                  ELSE 0)
  IN  total[top]

\* several obstructions: each projected independently, the union of their
\* shadow intersections divided by the roof-plane area
CombinedShadedFraction(roofCells, obstructionSet, cellsOf, sunAz, sunEl) ==
  (Scale * Cardinality(UNION {ShadowCells(roofCells, cellsOf[ob.polygon], ob.height_m,
                                          sunAz, sunEl) : ob \in obstructionSet}))
    \div Cardinality(roofCells)

(***************************************************************************)
(* Inputs: the sites, roof planes and obstructions analysed.               *)
(***************************************************************************)
Rect(x0, y0, x1, y1) ==
  << <<x0, y0>>, <<x1, y0>>, <<x1, y1>>, <<x0, y1>>, <<x0, y0>> >>

LocationList ==
  << [latitude |-> 38, longitude |-> -122],
     [latitude |-> 0, longitude |-> 0],
     [latitude |-> 75, longitude |-> 20] >>

Locations == {LocationList[n] : n \in 1..Len(LocationList)}

MainRoof ==
  [id |-> 1, polygon |-> Rect(0, 0, 10, 8), tilt_deg |-> 20, azimuth_deg |-> 180]

EastWing ==
  [id |-> 2,
   polygon |-> << <<0, 0>>, <<6, 0>>, <<6, 3>>, <<3, 3>>, <<3, 6>>, <<0, 6>>, <<0, 0>> >>,
   tilt_deg |-> 25, azimuth_deg |-> 90]

Underside ==
  [id |-> 3, polygon |-> Rect(0, 0, 4, 4), tilt_deg |-> 180, azimuth_deg |-> 0]

Sliver ==
  [id |-> 4, polygon |-> << <<0, 0>>, <<5, 0>>, <<9, 0>>, <<0, 0>> >>,
   tilt_deg |-> 20, azimuth_deg |-> 180]

PlaneCatalogue == {MainRoof, EastWing, Underside, Sliver}

Tree == [id |-> 1, type |-> "tree", polygon |-> Rect(2, 2, 3, 3), height_m |-> 8]

Building == [id |-> 2, type |-> "building", polygon |-> Rect(-2, -10, 12, -1), height_m |-> 6]

Chimney == [id |-> 3, type |-> "chimney", polygon |-> Rect(4, -2, 7, 0), height_m |-> 6]

ObstructionCatalogue == {Tree, Building, Chimney}

\* an obstruction whose polygon has two distinct vertices only
Pole ==
  [id |-> 4, type |-> "pole", polygon |-> << << 5, 5 >>, << 6, 5 >>, << 5, 5 >> >>,
   height_m |-> 3]

ObstructionSets ==
  {os \in SUBSET ObstructionCatalogue : Cardinality(os) <= MaxObstructions}

\* a run analyses up to MaxPlanes distinct planes
Runs ==
  {run \in UNION {[1..n -> PlaneCatalogue] : n \in 1..MaxPlanes} :
     \A i, j \in DOMAIN run : run[i] = run[j] => i = j}

(***************************************************************************)
(* TemporalAggregator: sampling grid and accumulation.                     *)
(***************************************************************************)
MonthsPerYear == 12

\* variant: the last hour left out of the range
HoursPerDayExclusive == LastHour - FirstHour

\* range(6, 19)
HoursPerDay == LastHour - FirstHour + 1

\* for day in representative_days: for hour in range(6, 19)
SamplingGrid ==
  [i \in 1..(MonthsPerYear * HoursPerDay) |->
     [month |-> ((i - 1) \div HoursPerDay) + 1,
      day |-> RepresentativeDay,
      hour |-> FirstHour + ((i - 1) % HoursPerDay)]]

\* variant: the last peak hour left out
IsPeakHourExclusive(hour) == hour >= PeakStartHour /\ hour < PeakEndHour

\* hours 10-16
IsPeakHour(hour) == hour >= PeakStartHour /\ hour <= PeakEndHour

\* variant: only a strictly negative elevation counts as night
IsNightStrict(elevation) == elevation < 0

\* the sun is below the horizon: the instant is excluded
IsNight(elevation) == elevation <= 0

EmptyAcc ==
  [potential |-> 0, actual |-> 0,
   peak_potential |-> 0, peak_actual |-> 0,
   month_potential |-> [m \in 1..MonthsPerYear |-> 0],
   month_actual |-> [m \in 1..MonthsPerYear |-> 0],
   hour_shaded |-> [h \in FirstHour..LastHour |-> 0],
   hour_count |-> [h \in FirstHour..LastHour |-> 0],
   worst |-> << >>, best |-> << >>,
   skipped |-> 0, accumulated |-> 0, visited |-> << >>]

LocationNo(loc) == CHOOSE n \in 1..Len(LocationList) : LocationList[n] = loc

\* position of an instant in the chronological sample sequence
InstantIndex(instant) ==
  (instant.month - 1) * HoursPerDay + (instant.hour - FirstHour) + 1

\* solar positions are computed once per (location, instant) and shared by the
\* planes of the site
SunTable ==
  [k \in 0..(Len(LocationList) * Len(SamplingGrid) - 1) |->
     LET site == LocationList[(k \div Len(SamplingGrid)) + 1]
         instant == SamplingGrid[(k % Len(SamplingGrid)) + 1]
     IN  calculate_sun_position(site.latitude, site.longitude,
                                instant.month, instant.hour)]

SunPosition(site, instant) ==
  SunTable[(LocationNo(site) - 1) * Len(SamplingGrid) + InstantIndex(instant) - 1]

\* variant: the shaded share of the production kept instead of removed
ShadedProduction(production, shaded) == (production * shaded) \div Scale

\* power = irradiance * efficiency * (1 - shading_factor)
ActualProduction(production, shaded) == (production * (Scale - shaded)) \div Scale

\* variant: the efficiency left out of the actual production
SampleInstantNoEfficiency(site, plane, obstructionSet, cellsOf, instant) ==
  LET sun == SunPosition(site, instant)
      irr == Irradiance(sun.elevation)
      eff == Efficiency(sun.azimuth, sun.elevation, plane.tilt_deg,
                        plane.azimuth_deg, AmbientTempC)
      shaded == IF IsNight(sun.elevation) THEN 0
                ELSE CombinedShadedFraction(cellsOf[plane.polygon], obstructionSet,
                                            cellsOf, sun.azimuth, sun.elevation)
      production == (irr * eff) \div Scale
  IN  [instant |-> instant, sun |-> sun, irradiance |-> irr, efficiency |-> eff,
       shaded |-> shaded, potential |-> production,
       actual |-> ActualProduction(irr, shaded)]

\* everything computed for one instant of one plane
SampleInstant(site, plane, obstructionSet, cellsOf, instant) ==
  LET sun == SunPosition(site, instant)
      irr == Irradiance(sun.elevation)
      eff == Efficiency(sun.azimuth, sun.elevation, plane.tilt_deg,
                        plane.azimuth_deg, AmbientTempC)
      shaded == IF IsNight(sun.elevation) THEN 0
                ELSE CombinedShadedFraction(cellsOf[plane.polygon], obstructionSet,
                                            cellsOf, sun.azimuth, sun.elevation)
      production == (irr * eff) \div Scale
  IN  [instant |-> instant, sun |-> sun, irradiance |-> irr, efficiency |-> eff,
       shaded |-> shaded, potential |-> production,
       actual |-> ActualProduction(production, shaded)]

\* variant: an equal value replaces the recorded moment too
ExceedsOrEquals(value, recorded) == value >= recorded

\* a new extreme replaces the recorded moment only when strictly greater
Exceeds(value, recorded) == value > recorded

TrackWorst(worst, s) ==
  IF worst = << >> \/ Exceeds(s.shaded, worst[1].shaded_permille)
  THEN << [datetime |-> s.instant, sun_azimuth |-> s.sun.azimuth,
           sun_elevation |-> s.sun.elevation, shaded_permille |-> s.shaded] >>
  ELSE worst

TrackBest(best, s) ==
  IF best = << >> \/ Exceeds(s.actual, best[1].production_w_m2)
  THEN << [datetime |-> s.instant, production_w_m2 |-> s.actual] >>
  ELSE best

\* variant: the monthly sums kept under a month index that is one too high
AccumulateSampleNextMonth(a, s) ==
  LET m == (s.instant.month % MonthsPerYear) + 1
      peak == IsPeakHour(s.instant.hour)
  IN  [a EXCEPT
         !.potential = @ + s.potential,
         !.actual = @ + s.actual,
         !.peak_potential = IF peak THEN @ + s.potential ELSE @,
         !.peak_actual = IF peak THEN @ + s.actual ELSE @,
         !.month_potential[m] = @ + s.potential,
         !.month_actual[m] = @ + s.actual,
         !.hour_shaded[s.instant.hour] = @ + s.shaded,
         !.hour_count[s.instant.hour] = @ + 1,
         !.worst = TrackWorst(@, s),
         !.best = TrackBest(@, s),
         !.accumulated = @ + 1,
         !.visited = Append(@, s.instant)]

\* potential += irradiance * efficiency
\* actual += irradiance * efficiency * (1 - shaded_fraction)
AccumulateSample(a, s) ==
  LET m == s.instant.month
      peak == IsPeakHour(s.instant.hour)
  IN  [a EXCEPT
         !.potential = @ + s.potential,
         !.actual = @ + s.actual,
         !.peak_potential = IF peak THEN @ + s.potential ELSE @,
         !.peak_actual = IF peak THEN @ + s.actual ELSE @,
         !.month_potential[m] = @ + s.potential,
         !.month_actual[m] = @ + s.actual,
         !.hour_shaded[s.instant.hour] = @ + s.shaded,
         !.hour_count[s.instant.hour] = @ + 1,
         !.worst = TrackWorst(@, s),
         !.best = TrackBest(@, s),
         !.accumulated = @ + 1,
         !.visited = Append(@, s.instant)]

SkipSample(a, s) ==
  [a EXCEPT !.skipped = @ + 1, !.visited = Append(@, s.instant)]

\* variant: the difference taken the wrong way round
LossRatioFlipped(potential, actual) == (Scale * (actual - potential)) \div potential

\* loss_% = (potential - actual) / potential * 100, in tenths of a percent
LossRatio(potential, actual) == (Scale * (potential - actual)) \div potential

\* variant: no production reported as total loss
LossPercentZeroAsTotal(potential, actual) ==
  IF potential = 0 THEN Scale ELSE LossRatio(potential, actual)

\* the loss is defined as 0 when the potential is 0
LossPercent(potential, actual) ==
  IF potential = 0 THEN 0 ELSE LossRatio(potential, actual)

\* variant: no band above the significant one
BandRecommendationThreeBands(annualLoss) ==
  IF annualLoss < LowBand THEN "low"
  ELSE IF annualLoss < ModerateBand THEN "moderate"
  ELSE "significant"

\* the severity message, by the band of the annual loss
BandRecommendation(annualLoss) ==
  IF annualLoss < LowBand THEN "low"
  ELSE IF annualLoss < ModerateBand THEN "moderate"
  ELSE IF annualLoss <= SignificantBand THEN "significant"
  ELSE "severe"

\* average shaded fraction of the accumulated instants of one hour of day
HourAverage(a, h) ==
  IF a.hour_count[h] = 0 THEN 0 ELSE a.hour_shaded[h] \div a.hour_count[h]

\* the earliest hour of day with the highest average shaded fraction
WorstHourOfDay(a) ==
  CHOOSE h \in FirstHour..LastHour :
    \A k \in FirstHour..LastHour :
      /\ HourAverage(a, k) <= HourAverage(a, h)
      /\ k < h => HourAverage(a, k) < HourAverage(a, h)

\* the severity message, then the peak-hours message when the peak-hours loss
\* is above the annual loss, then the most affected time of day when some hour
\* is shaded on average
Recommendations(a) ==
  LET annual == LossPercent(a.potential, a.actual)
      peak == LossPercent(a.peak_potential, a.peak_actual)
      h == WorstHourOfDay(a)
  IN  << [kind |-> "severity", level |-> BandRecommendation(annual)] >>
        \o (IF peak > annual
            THEN << [kind |-> "peak_hours", level |-> "disproportionate"] >>
            ELSE << >>)
        \o (IF HourAverage(a, h) > 0
            THEN << [kind |-> "most_affected_time", hour |-> h,
                     shaded_permille |-> HourAverage(a, h)] >>
            ELSE << >>)

FinalizePlane(plane, a) ==
  [plane_id |-> plane.id,
   annual_energy_loss_percent |-> LossPercent(a.potential, a.actual),
   peak_hours_loss_percent |-> LossPercent(a.peak_potential, a.peak_actual),
   annual_production |-> a.actual,
   potential_production |-> a.potential,
   worst_shading_moment |-> a.worst,
   best_production_moment |-> a.best,
   monthly_breakdown |->
     [m \in 1..MonthsPerYear |->
        [month |-> m,
         potential_day |-> a.month_potential[m],
         actual_day |-> a.month_actual[m],
         loss_percent |-> LossPercent(a.month_potential[m], a.month_actual[m])]],
   worst_hour_of_day |-> WorstHourOfDay(a),
   recommendations |-> Recommendations(a),
   note |-> IF a.potential = 0 THEN "no_potential_production" ELSE ""]

\* rasterised footprints of the polygons in use
CellsOf ==
  [r \in {pl.polygon : pl \in PlaneCatalogue} \cup {ob.polygon : ob \in ObstructionCatalogue}
     |-> Cells(r)]

\* SampleInstant tabulated over the inputs in use.  The table is indexed by
\* one integer per (location, plane, obstruction set, grid position).
PlaneById(id) == CHOOSE pl \in PlaneCatalogue : pl.id = id

ObstructionMask(os) ==
  LET bits[n \in 0..Cardinality(ObstructionCatalogue)] ==
        IF n = 0 THEN 0
        ELSE bits[n - 1] + (IF \E ob \in os : ob.id = n THEN 2 ^ (n - 1) ELSE 0)
  IN  bits[Cardinality(ObstructionCatalogue)]

NumMasks == 2 ^ Cardinality(ObstructionCatalogue)

SampleKey(loc, pl, os, i) ==
  (((LocationNo(loc) - 1) * Cardinality(PlaneCatalogue) + (pl.id - 1)) * NumMasks
     + ObstructionMask(os)) * Len(SamplingGrid) + (i - 1)

SampleTable ==
  [k \in 0..(Len(LocationList) * Cardinality(PlaneCatalogue) * NumMasks
               * Len(SamplingGrid) - 1) |->
     LET i == (k % Len(SamplingGrid)) + 1
         rest == k \div Len(SamplingGrid)
         os == CHOOSE x \in SUBSET ObstructionCatalogue :
                 ObstructionMask(x) = rest % NumMasks
         pl == PlaneById(((rest \div NumMasks) % Cardinality(PlaneCatalogue)) + 1)
         loc == LocationList[(rest \div (NumMasks * Cardinality(PlaneCatalogue))) + 1]
     IN  IF ValidPolygon(pl.polygon) /\ os \in ObstructionSets
         THEN SampleInstant(loc, pl, os, CellsOf, SamplingGrid[i])
         ELSE << >>]

\* the run-level summary: successful planes in input order, failed planes
\* flagged, averages over the planes analysed
RECURSIVE SumLoss(_, _, _)
SumLoss(planeResults, field, i) ==
  IF i > Len(planeResults) THEN 0
  ELSE planeResults[i][field] + SumLoss(planeResults, field, i + 1)

Average(planeResults, field) ==
  IF Len(planeResults) = 0 THEN 0
  ELSE SumLoss(planeResults, field, 1) \div Len(planeResults)

RECURSIVE CollectResults(_, _)
CollectResults(res, i) ==
  IF i > Len(res) THEN << >> ELSE res[i] \o CollectResults(res, i + 1)

\* variant: the sums of the losses divided by the number of planes submitted
RunSummaryCountingFailed(planeList, states, res) ==
  LET ok == CollectResults(res, 1)
  IN  [planes |-> ok,
       failed_planes |-> {planeList[p].id : p \in {q \in DOMAIN planeList : states[q] = "Failed"}},
       average_annual_energy_loss |->
         SumLoss(ok, "annual_energy_loss_percent", 1) \div Len(planeList),
       average_peak_hours_loss |->
         SumLoss(ok, "peak_hours_loss_percent", 1) \div Len(planeList)]

RunSummary(planeList, states, res) ==
  LET ok == CollectResults(res, 1)
  IN  [planes |-> ok,
       failed_planes |-> {planeList[p].id : p \in {q \in DOMAIN planeList : states[q] = "Failed"}},
       average_annual_energy_loss |-> Average(ok, "annual_energy_loss_percent"),
       average_peak_hours_loss |-> Average(ok, "peak_hours_loss_percent")]

(***************************************************************************)
(* SurveyorMapEditor: conversions from the form's choices to the values    *)
(* sent to the backend.  A JavaScript lookup that finds no entry gives     *)
(* undefined, written << >>; a value found is written << v >>.             *)
(***************************************************************************)
\* map[key] of a Record<string, number>
Lookup(map, key) == IF key \in DOMAIN map THEN << map[key] >> ELSE << >>

\* value || fallback: the fallback is taken when the value is undefined or 0
OrDefault(value, fallback) ==
  IF value = << >> \/ value[1] = 0 THEN fallback ELSE value[1]

DefaultAzimuth == 180   \* "Default to south"
DefaultTilt == 25       \* "Default to medium"
FlatRoofTilt == 5       \* tilt submitted for a flat roof
WktScale == 10          \* map units to WKT units

DirectionMap ==
  [north |-> 0, east |-> 90, south |-> 180, west |-> 270,
   northeast |-> 45, southeast |-> 135, southwest |-> 225, northwest |-> 315]

directionToAzimuth(direction) == OrDefault(Lookup(DirectionMap, direction), DefaultAzimuth)

SteepnessMap == [flat |-> 5, low |-> 15, medium |-> 25, steep |-> 40]

steepnessToTilt(steepness) == OrDefault(Lookup(SteepnessMap, steepness), DefaultTilt)

DefaultHeight == 3      \* height of a category outside the table

HeightMap == [short |-> 2, medium |-> 5, tall |-> 10]

heightCategoryToMeters(category) ==
  OrDefault(Lookup(HeightMap, category), DefaultHeight)

\* A map coordinate is an integer number of screen pixels at the deepest zoom
\* (maxZoom 5 of the simple coordinate system: 2^5 pixels per map unit).
PixelsPerUnit == 32

\* decimals kept by toFixed(2)
WktDecimals == 2

RECURSIVE Pow10(_)
Pow10(k) == IF k = 0 THEN 1 ELSE 10 * Pow10(k - 1)

\* (numer / denom).toFixed(decimals): the sign, and the magnitude rounded to
\* the nearest 10^-decimals (a tie away from zero), as a count of that unit
toFixed(numer, denom, decimals) ==
  LET magnitude == (IF numer < 0 THEN -numer ELSE numer) * Pow10(decimals)
      quotient  == magnitude \div denom
      remainder == magnitude % denom
  IN  [sign   |-> IF numer < 0 THEN "-" ELSE "",
       digits |-> IF 2 * remainder >= denom THEN quotient + 1 ELSE quotient]

\* `${x} ${y}` of one coordinate (lat, lng): x from lng, y from lat
WktPoint(coord) ==
  << toFixed(coord[2] * WktScale, PixelsPerUnit, WktDecimals),
     toFixed(coord[1] * WktScale, PixelsPerUnit, WktDecimals) >>

\* coordsToWKT without the closing point
coordsToWKTOpen(coords) ==
  IF Len(coords) = 0 THEN << >>
  ELSE [i \in 1..Len(coords) |-> WktPoint(coords[i])]

\* coordinates (lat, lng) to the ring of a WKT polygon, the first point
\* repeated at the end; the empty string is written << >>
coordsToWKT(coords) ==
  IF Len(coords) = 0 THEN << >>
  ELSE LET points == [i \in 1..Len(coords) |-> WktPoint(coords[i])]
       IN  Append(points, points[1])

\* the options of the form's selects, and the shapes drawn on the map
RoofDirections ==
  {"north", "northeast", "east", "southeast", "south", "southwest", "west",
   "northwest"}

RoofTypes == {"flat", "sloped"}

RoofSteepnesses == {"low", "medium", "steep"}

RoofNames == {"Main Roof", ""}

ObsTypes == {"tree", "chimney", "water_tank", "vent", "antenna", "other"}

ObsHeights == {"short", "medium", "tall"}

\* half the side of the square put around a marker: 0.5 map units
MarkerHalfSide == PixelsPerUnit \div 2

\* positions (lat, lng) a marker is dropped at
MarkerPositions == { << 0, 0 >>, << 50, -70 >> }

DrawnShapes == { << << 0, 0 >>, << -2, 130 >>, << 96, 13 >> >> }

\* useState initial values
InitialEditor ==
  [mode |-> "roof", roofName |-> "Main Roof", roofType |-> "sloped",
   roofDirection |-> "south", roofSteepness |-> "medium",
   drawnRoofCoords |-> << >>, drawnObsCoords |-> << >>,
   alert |-> "", roofPlaneAdded |-> << >>,
   obsType |-> "tree", obsHeight |-> "medium", obstructionAdded |-> << >>]

\* the test script before any test has run
InitialScript == [input |-> << >>, wkt |-> << >>]

(***************************************************************************)
(* Projects list page.  A project is its id; a fetched page of the list    *)
(* is the set of ids on it with the page count the backend reports.        *)
(***************************************************************************)
\* ITEMS_PER_PAGE is 20 in the page; the lists here are paged by
\* ItemsPerPage so that a few projects fill several pages
ItemsPerPage == 2

\* ids the backend ever hands out
MaxProjects == 4

\* projects present when the page is opened
InitialProjects == 3

\* the search debounce, and the step time advances by
DebounceMs == 500
DebounceStep == 250

\* what can stand in the search box; a project's name contains "a" exactly
\* when its id is odd, and "ab" when its id is 1, 5, 9, ...
SearchInputs == {"", "a", "ab"}

Matches(id, query) ==
  \/ query = ""
  \/ query = "a" /\ id % 2 = 1
  \/ query = "ab" /\ id % 4 = 1

\* GET /projects?page=..&limit=..&search=..: the ids of the requested page,
\* in id order, and the pagination block
ListResponse(stored, page, query) ==
  LET matching == { id \in stored : Matches(id, query) }
      rank(id) == Cardinality({ other \in matching : other <= id })
      total    == Cardinality(matching)
  IN  [items       |-> { id \in matching :
                           /\ rank(id) > (page - 1) * ItemsPerPage
                           /\ rank(id) <= page * ItemsPerPage },
       total       |-> total,
       total_pages |-> (total + ItemsPerPage - 1) \div ItemsPerPage]

\* useState initial values, the first fetch in flight, the debounce timer
\* started by the first run of the search effect
InitialProjectsPage ==
  [backend |-> 1..InitialProjects, nextId |-> InitialProjects + 1,
   currentPage |-> 1, searchQuery |-> "", searchInput |-> "",
   timer |-> << DebounceMs >>, idle |-> 0,
   selectedIds |-> {}, showConfirmModal |-> FALSE, deleteTarget |-> {},
   deleting |-> << >>,
   data |-> << >>, fetching |-> TRUE]

(***************************************************************************)
(* Project detail page: the analysis and report queries.  A fetched list   *)
(* is kept as the set of statuses occurring in it; no data yet is << >>,   *)
(* a fetched list << statuses >>.                                          *)
(***************************************************************************)
Queries == {"analysis", "reports"}

Statuses == {"queued", "running", "done", "failed"}

AnalysisPollMs == 2000
ReportsPollMs == 3000

\* refetchInterval of analysisQ with "running" left out
analysisRefetchIntervalQueuedOnly(fetched) ==
  IF fetched # << >> /\ (\E status \in fetched[1] : status = "queued")
  THEN AnalysisPollMs ELSE 0

\* refetchInterval of analysisQ, false written 0
analysisRefetchInterval(fetched) ==
  IF fetched # << >>
     /\ (\E status \in fetched[1] : status = "queued" \/ status = "running")
  THEN AnalysisPollMs ELSE 0

\* refetchInterval of reportsQ, false written 0
reportsRefetchInterval(fetched) ==
  IF fetched # << >>
     /\ (\E status \in fetched[1] : status = "queued" \/ status = "running")
  THEN ReportsPollMs ELSE 0

refetchInterval(q, fetched) ==
  IF q = "analysis" THEN analysisRefetchInterval(fetched)
  ELSE reportsRefetchInterval(fetched)

\* The two queries share nothing (their keys, caches, timers and
\* invalidations are separate), so the page is followed one query at a time:
\* key names the query followed.  As the page mounts nothing is fetched, the
\* first fetch is in flight, no interval timer runs, the backend has no jobs.
InitialQuery(q) ==
  [key |-> q, data |-> << >>, fetching |-> TRUE, cause |-> "mount",
   interval |-> 0, elapsed |-> 0, backend |-> {}]

InitialDetailPage == InitialQuery("analysis")

(***************************************************************************)
(* State.                                                                  *)
(***************************************************************************)
VARIABLES
  location,      \* Location of the current call
  obstructions,  \* set of Obstruction records of the current call
  planes,        \* sequence of RoofPlane records of the current call
  pc,            \* per plane: Validate, Initialize, SampleInstant, Done, Failed
  grid,          \* per plane: the sampling grid built by Initialize
  cursor,        \* per plane: index of the next instant to sample
  acc,           \* per plane: the running sums and tracked moments
  results,       \* per plane: << >> or << PlaneAnalysisResult >>
  runState,      \* "running" or "done"
  runResult,     \* << >> or << run-level result >>
  calls,         \* number of engine calls started
  cancelled,     \* the caller's cancellation token of the current call
  log,           \* every (inputs, plane result) pair the engine has returned
  editor,        \* SurveyorMapEditor: form state, drawn shape, last callback
  projectsPage,  \* projects list page: component state, query cache, backend
  detailPage,    \* project detail page: analysis and report queries
  script         \* the conversion test script: last input and output

vars ==
  << location, obstructions, planes, pc, grid, cursor, acc, results,
     runState, runResult, calls, cancelled, log, editor,
     projectsPage, detailPage, script >>

\* the variables of the pages other than the surveyor editor
pages == << projectsPage, detailPage, script >>

\* the variables of the analysis engine
engine ==
  << location, obstructions, planes, pc, grid, cursor, acc, results,
     runState, runResult, calls, cancelled, log >>

Terminal == {"Done", "Failed", "Cancelled"}

\* the state of a call that has just received its inputs; accumulator storage
\* carried over from an earlier call is left as it is until Initialize
StartCall(loc, obs, run, oldAcc) ==
  /\ location' = loc
  /\ obstructions' = obs
  /\ planes' = run
  /\ pc' = [p \in DOMAIN run |-> "Validate"]
  /\ grid' = [p \in DOMAIN run |-> << >>]
  /\ cursor' = [p \in DOMAIN run |-> 0]
  /\ acc' = [p \in DOMAIN run |-> IF p \in DOMAIN oldAcc THEN oldAcc[p] ELSE EmptyAcc]
  /\ results' = [p \in DOMAIN run |-> << >>]
  /\ runState' = "running"
  /\ runResult' = << >>
  /\ cancelled' = FALSE

InitAll(locs, obsSets, runs, details) ==
  /\ location \in locs
  /\ obstructions \in obsSets
  /\ planes \in runs
  /\ pc = [p \in DOMAIN planes |-> "Validate"]
  /\ grid = [p \in DOMAIN planes |-> << >>]
  /\ cursor = [p \in DOMAIN planes |-> 0]
  /\ acc = [p \in DOMAIN planes |-> EmptyAcc]
  /\ results = [p \in DOMAIN planes |-> << >>]
  /\ runState = "running"
  /\ runResult = << >>
  /\ calls = 1
  /\ cancelled = FALSE
  /\ log = {}
  /\ editor = InitialEditor
  /\ projectsPage = InitialProjectsPage
  /\ detailPage \in details
  /\ script = InitialScript

InitWith(locs, obsSets, runs) ==
  InitAll(locs, obsSets, runs, {InitialDetailPage})

\* one call analysing a single plane
Init == InitWith(Locations, ObstructionSets, {<< pl >> : pl \in PlaneCatalogue})

(***************************************************************************)
(* Per-plane steps.                                                        *)
(***************************************************************************)
\* variant: a rejected plane ends the run for the planes after it
FailPlaneAbortRun(states, p) ==
  [q \in DOMAIN states |-> IF q >= p THEN "Failed" ELSE states[q]]

\* a plane whose geometry is rejected fails alone
FailPlane(states, p) == [states EXCEPT ![p] = "Failed"]

\* variant: the polygons of the obstructions are not looked at
ValidInputsPlaneOnly(plane, obstructionSet) == ValidPolygon(plane.polygon)

\* the polygons of the plane and of every obstruction that may shade it
ValidInputs(plane, obstructionSet) ==
  /\ ValidPolygon(plane.polygon)
  /\ \A ob \in obstructionSet : ValidPolygon(ob.polygon)

\* input validation, before any solar computation
Validate(p) ==
  /\ pc[p] = "Validate"
  /\ pc' = IF ValidInputs(planes[p], obstructions)
           THEN [pc EXCEPT ![p] = "Initialize"]
           ELSE FailPlane(pc, p)
  /\ UNCHANGED << location, obstructions, planes, grid, cursor, acc, results,
                  runState, runResult, calls, cancelled, log, editor, pages >>

\* variant: the accumulators left as the previous analysis left them
ResetAccKeep(old) == old

\* fresh accumulators for the plane
ResetAcc(old) == EmptyAcc

\* variant: one set of accumulators shared by every plane
AccSlotShared(p) == 1

\* each plane's analysis owns its accumulators
AccSlot(p) == p

\* variant: the token looked at before the first hour of each day only
StopRequestedPerDay(token, instant) == token /\ instant.hour = FirstHour

\* the cancellation token, looked at before each instant
StopRequested(token, instant) == token

Initialize(p) ==
  /\ pc[p] = "Initialize"
  /\ grid' = [grid EXCEPT ![p] = SamplingGrid]
  /\ cursor' = [cursor EXCEPT ![p] = 1]
  /\ acc' = [acc EXCEPT ![AccSlot(p)] = ResetAcc(@)]
  /\ pc' = [pc EXCEPT ![p] = "SampleInstant"]
  /\ UNCHANGED << location, obstructions, planes, results, runState, runResult,
                  calls, cancelled, log, editor, pages >>

CurrentSample(p) ==
  SampleTable[SampleKey(location, planes[p], obstructions,
                        InstantIndex(grid[p][cursor[p]]))]

Skip(p) ==
  /\ pc[p] = "SampleInstant"
  /\ cursor[p] <= Len(grid[p])
  /\ ~StopRequested(cancelled, grid[p][cursor[p]])
  /\ LET s == CurrentSample(p)
     IN  /\ IsNight(s.sun.elevation)
         /\ acc' = [acc EXCEPT ![AccSlot(p)] = SkipSample(@, s)]
  /\ cursor' = [cursor EXCEPT ![p] = @ + 1]
  /\ UNCHANGED << location, obstructions, planes, pc, grid, results, runState,
                  runResult, calls, cancelled, log, editor, pages >>

Accumulate(p) ==
  /\ pc[p] = "SampleInstant"
  /\ cursor[p] <= Len(grid[p])
  /\ ~StopRequested(cancelled, grid[p][cursor[p]])
  /\ LET s == CurrentSample(p)
     IN  /\ ~IsNight(s.sun.elevation)
         /\ acc' = [acc EXCEPT ![AccSlot(p)] = AccumulateSample(@, s)]
  /\ cursor' = [cursor EXCEPT ![p] = @ + 1]
  /\ UNCHANGED << location, obstructions, planes, pc, grid, results, runState,
                  runResult, calls, cancelled, log, editor, pages >>

Finalize(p) ==
  /\ pc[p] = "SampleInstant"
  /\ cursor[p] > Len(grid[p])
  /\ LET r == FinalizePlane(planes[p], acc[AccSlot(p)])
     IN  /\ results' = [results EXCEPT ![p] = << r >>]
         /\ log' = log \cup {[call |-> calls, location |-> location,
                              obstructions |-> obstructions,
                              plane |-> planes[p], result |-> r]}
  /\ pc' = [pc EXCEPT ![p] = "Done"]
  /\ UNCHANGED << location, obstructions, planes, grid, cursor, acc, runState,
                  runResult, calls, cancelled, editor, pages >>

PlaneStep(p) ==
  \/ Validate(p)
  \/ Initialize(p)
  \/ Skip(p)
  \/ Accumulate(p)
  \/ Finalize(p)

\* every plane has finished or failed: assemble the run-level result
CompleteRun ==
  /\ runState = "running"
  /\ \A p \in DOMAIN planes : pc[p] \in Terminal
  /\ runResult' = << RunSummary(planes, pc, results) >>
  /\ runState' = "done"
  /\ UNCHANGED << location, obstructions, planes, pc, grid, cursor, acc, results,
                  calls, cancelled, log, editor, pages >>

\* planes analysed one after another, in input order
InTurn(p) == \A q \in 1..(p - 1) : pc[q] \in Terminal

AnalyzeNext == \E p \in DOMAIN planes : InTurn(p) /\ PlaneStep(p)

Next ==
  \/ AnalyzeNext
  \/ CompleteRun

Spec == Init /\ [][Next]_vars

\* the analysis is never left unfinished
FairSpec == Spec /\ WF_vars(Next)

\* calls whose obstruction list may hold an invalid polygon
ValidationInit ==
  InitWith(Locations, {{}, {Tree}, {Pole}, {Tree, Pole}},
           {<< pl >> : pl \in PlaneCatalogue} \cup {<< Sliver, MainRoof >>})

ValidationSpec == ValidationInit /\ [][Next]_vars

\* one call analysing a run of several planes, one after another
RunInit == InitWith(Locations, ObstructionSets, Runs)

RunSpec == RunInit /\ [][Next]_vars

(***************************************************************************)
(* Cancellation: the caller may set the token at any moment of a run; the  *)
(* aggregator finds it set before the next instant and gives the plane up. *)
(***************************************************************************)
Cancel ==
  /\ runState = "running"
  /\ ~cancelled
  /\ cancelled' = TRUE
  /\ UNCHANGED << location, obstructions, planes, pc, grid, cursor, acc, results,
                  runState, runResult, calls, log, editor, pages >>

Abandon(p) ==
  /\ pc[p] = "SampleInstant"
  /\ cursor[p] <= Len(grid[p])
  /\ StopRequested(cancelled, grid[p][cursor[p]])
  /\ pc' = [pc EXCEPT ![p] = "Cancelled"]
  /\ UNCHANGED << location, obstructions, planes, grid, cursor, acc, results,
                  runState, runResult, calls, cancelled, log, editor, pages >>

AbandonNext == \E p \in DOMAIN planes : InTurn(p) /\ Abandon(p)

CancelInit ==
  InitWith(Locations, {{Tree}}, {<< MainRoof >>, << EastWing, MainRoof >>})

CancelNext ==
  \/ AnalyzeNext
  \/ AbandonNext
  \/ CompleteRun
  \/ Cancel

CancelSpec == CancelInit /\ [][CancelNext]_vars

(***************************************************************************)
(* Planes analysed concurrently: any unfinished plane may take the next    *)
(* step.                                                                   *)
(***************************************************************************)
ConcurrentRuns == { << MainRoof, EastWing >>, << Sliver, Underside >> }

ConcInit == InitWith({LocationList[1]}, {{Tree}}, ConcurrentRuns)

AnalyzeAny == \E p \in DOMAIN planes : PlaneStep(p)

ConcNext ==
  \/ AnalyzeAny
  \/ CompleteRun

ConcSpec == ConcInit /\ [][ConcNext]_vars

(***************************************************************************)
(* The engine called repeatedly: a new call starts once the previous run   *)
(* has returned.                                                           *)
(***************************************************************************)
RepeatInputs ==
  { << LocationList[1], {}, << MainRoof >> >>,
    << LocationList[1], {Tree}, << MainRoof >> >>,
    << LocationList[1], {Tree}, << Sliver, MainRoof >> >>,
    << LocationList[1], {Building}, << MainRoof, EastWing >> >>,
    << LocationList[1], {Chimney}, << EastWing, Underside >> >> }

RepeatInit ==
  \E in \in RepeatInputs : InitWith({in[1]}, {in[2]}, {in[3]})

NewCall ==
  /\ runState = "done"
  /\ calls < MaxCalls
  /\ \E in \in RepeatInputs : StartCall(in[1], in[2], in[3], acc)
  /\ calls' = calls + 1
  /\ UNCHANGED << log, editor, pages >>

RepeatNext ==
  \/ AnalyzeNext
  \/ CompleteRun
  \/ NewCall

RepeatSpec == RepeatInit /\ [][RepeatNext]_vars

(***************************************************************************)
(* Reference: one plane analysed on its own, from fresh accumulators.      *)
(***************************************************************************)
SampleOf(site, plane, obstructionSet, i) ==
  SampleTable[SampleKey(site, plane, obstructionSet, i)]

\* one representative day folded into the accumulator, starting at the grid
\* position the accumulator has reached
AnalyzeDay(a, site, plane, obstructionSet) ==
  LET n == Len(a.visited)
      hours == Len(SamplingGrid) \div MonthsPerYear
      fold[i \in n..(n + hours)] ==
        IF i = n THEN a
        ELSE LET s == SampleOf(site, plane, obstructionSet, i)
             IN  IF IsNight(s.sun.elevation) THEN SkipSample(fold[i - 1], s)
                 ELSE AccumulateSample(fold[i - 1], s)
  IN  fold[n + hours]

AnalyzeAlone(site, plane, obstructionSet) ==
  LET year[m \in 0..MonthsPerYear] ==
        IF m = 0 THEN EmptyAcc
        ELSE AnalyzeDay(year[m - 1], site, plane, obstructionSet)
  IN  FinalizePlane(plane, year[MonthsPerYear])

(***************************************************************************)
(* Properties.                                                             *)
(***************************************************************************)
Sums(a) ==
  << a.potential, a.actual, a.peak_potential, a.peak_actual,
     a.month_potential, a.month_actual >>

\* plane p is about to sample an instant, and the step taken is p's
SamplingStep(p) ==
  /\ pc[p] = "SampleInstant"
  /\ cursor[p] <= Len(grid[p])
  /\ cursor'[p] = cursor[p] + 1

\* C1: an instant whose solar elevation is <= 0 has irradiance exactly 0 and is
\* skipped: the step that handles it leaves the annual, monthly and peak-hours
\* potential and actual sums as they were and counts the instant as skipped.
C1_NightExclusion ==
  [][\A p \in DOMAIN planes :
       (SamplingStep(p) /\ CurrentSample(p).sun.elevation <= 0)
         => /\ CurrentSample(p).irradiance = 0
            /\ Sums(acc'[p]) = Sums(acc[p])
            /\ acc'[p].skipped = acc[p].skipped + 1
            /\ acc'[p].accumulated = acc[p].accumulated]_vars

\* a night instant has just been handled, one of them at elevation exactly 0
C1_Witness ==
  \E p \in DOMAIN planes :
    /\ pc[p] = "SampleInstant"
    /\ cursor[p] > 1
    /\ acc[p].skipped > 0
    /\ acc[p].accumulated > 0
    /\ SampleOf(location, planes[p], obstructions, cursor[p] - 1).sun.elevation = 0

\* C2: with an empty obstruction list every valid plane is analysed without
\* error and its annual energy loss is 0.
C2_NoObstructionZeroLoss ==
  \A p \in DOMAIN planes :
    (obstructions = {} /\ ValidPolygon(planes[p].polygon))
      => /\ pc[p] # "Failed"
         /\ pc[p] = "Done" =>
              /\ results[p] # << >>
              /\ results[p][1].annual_energy_loss_percent = 0

\* an unobstructed plane with real production, sampled near the horizon too
C2_Witness ==
  \E p \in DOMAIN planes :
    /\ obstructions = {}
    /\ pc[p] = "Done"
    /\ results[p][1].potential_production > 0
    /\ \E i \in DOMAIN SamplingGrid :
         LET el == SampleOf(location, planes[p], obstructions, i).sun.elevation
         IN  el > 0 /\ el < ClampElevationDeg

GridIsRepresentative(g) ==
  /\ Len(g) = 156
  /\ \A i \in DOMAIN g :
       g[i].day = 15 /\ g[i].month \in 1..12 /\ g[i].hour \in 6..18
  /\ \A i \in 1..(Len(g) - 1) :
       \/ g[i].month < g[i + 1].month
       \/ g[i].month = g[i + 1].month /\ g[i].hour < g[i + 1].hour

BuiltGridIsRepresentative == GridIsRepresentative(SamplingGrid)

C5_GridAndCounts ==
  \A p \in DOMAIN planes :
    pc[p] \in {"SampleInstant", "Done"} =>
      /\ grid[p] = SamplingGrid
      /\ BuiltGridIsRepresentative
      /\ Len(acc[p].visited) = cursor[p] - 1
      /\ acc[p].skipped + acc[p].accumulated = cursor[p] - 1
      /\ pc[p] = "Done" => (acc[p].visited = grid[p] /\ results[p] # << >>)

C5_OneInstantPerStep ==
  \A p \in DOMAIN planes :
    SamplingStep(p) =>
      /\ acc'[p].visited = Append(acc[p].visited, grid[p][cursor[p]])
      /\ \/ /\ acc'[p].skipped = acc[p].skipped + 1
            /\ acc'[p].accumulated = acc[p].accumulated
         \/ /\ acc'[p].skipped = acc[p].skipped
            /\ acc'[p].accumulated = acc[p].accumulated + 1

\* C5: every plane is sampled at exactly the 156 grid instants, each visited
\* once in chronological order and sent through exactly one of Skip or
\* Accumulate, after which the plane is finalized; every analysis terminates.
C5_SamplingTerminates ==
  /\ []C5_GridAndCounts
  /\ [][C5_OneInstantPerStep]_vars
  /\ <>(runState = "done")

\* a finalized plane that both skipped and accumulated instants
C5_Witness ==
  \E p \in DOMAIN planes :
    /\ pc[p] = "Done"
    /\ acc[p].skipped > 0
    /\ acc[p].accumulated > 0
    /\ acc[p].skipped + acc[p].accumulated = 156

ShadedByAny(roofCells, obstructionSet, sunAz, sunEl) ==
  {c \in roofCells :
     \E ob \in obstructionSet :
       \/ sunEl < ClampElevationDeg
       \/ LET off == ShadowOffset(ob.height_m, sunAz, sunEl)
          IN  << c[1] - off[1], c[2] - off[2] >> \in CellsOf[ob.polygon]}

SameInputs(e1, e2) ==
  /\ e1.location = e2.location
  /\ e1.obstructions = e2.obstructions
  /\ e1.plane = e2.plane

C9_SameAsSequential ==
  \A p \in DOMAIN planes :
    pc[p] = "Done" =>
      results[p] = << AnalyzeAlone(location, planes[p], obstructions) >>

C9_Frame ==
  \A p \in DOMAIN planes :
    (pc'[p] # pc[p] \/ cursor'[p] # cursor[p])
      => \A q \in DOMAIN planes \ {p} :
           /\ pc'[q] = pc[q]
           /\ grid'[q] = grid[q]
           /\ cursor'[q] = cursor[q]
           /\ acc'[q] = acc[q]
           /\ results'[q] = results[q]

AccumulatedAt(p) ==
  {i \in DOMAIN SamplingGrid :
     SampleOf(location, planes[p], obstructions, i).sun.elevation > 0}

ShadedAt(p, i) == SampleOf(location, planes[p], obstructions, i).shaded

ActualAt(p, i) == SampleOf(location, planes[p], obstructions, i).actual

\* C10: the worst-shading moment reported is the chronologically first
\* accumulated instant with the maximum shaded fraction, and the best-production
\* moment the first accumulated instant with the maximum actual production.
C10_FirstExtremes ==
  \A p \in DOMAIN planes :
    (runState = "done" /\ pc[p] = "Done" /\ AccumulatedAt(p) # {})
      => LET r == results[p][1]
             w == InstantIndex(r.worst_shading_moment[1].datetime)
             b == InstantIndex(r.best_production_moment[1].datetime)
         IN  /\ r.worst_shading_moment # << >>
             /\ r.best_production_moment # << >>
             /\ w \in AccumulatedAt(p)
             /\ b \in AccumulatedAt(p)
             /\ r.worst_shading_moment[1].shaded_permille = ShadedAt(p, w)
             /\ r.best_production_moment[1].production_w_m2 = ActualAt(p, b)
             /\ \A j \in AccumulatedAt(p) :
                  /\ ShadedAt(p, j) <= ShadedAt(p, w)
                  /\ j < w => ShadedAt(p, j) < ShadedAt(p, w)
                  /\ ActualAt(p, j) <= ActualAt(p, b)
                  /\ j < b => ActualAt(p, j) < ActualAt(p, b)

\* a finished plane where the maximum shaded fraction and the maximum actual
\* production are each attained at more than one instant
C10_Witness ==
  \E p \in DOMAIN planes :
    /\ runState = "done"
    /\ pc[p] = "Done"
    /\ AccumulatedAt(p) # {}
    /\ LET w == InstantIndex(results[p][1].worst_shading_moment[1].datetime)
           b == InstantIndex(results[p][1].best_production_moment[1].datetime)
       IN  /\ ShadedAt(p, w) > 0
           /\ \E j \in AccumulatedAt(p) : j > w /\ ShadedAt(p, j) = ShadedAt(p, w)
           /\ ActualAt(p, b) > 0
           /\ \E j \in AccumulatedAt(p) : j > b /\ ActualAt(p, j) = ActualAt(p, b)

\* C11: the peak-hours potential and actual sums grow by an instant's potential
\* and actual production exactly when the instant is accumulated and its hour
\* is in 10..16, and are otherwise left alone; they start at 0, and the
\* peak-hours loss is the annual loss formula applied to the two peak sums.
C11_PeakStep ==
  \A p \in DOMAIN planes :
    SamplingStep(p) =>
      LET s == CurrentSample(p)
          inPeak == s.sun.elevation > 0 /\ grid[p][cursor[p]].hour \in 10..16
      IN  /\ acc'[p].peak_potential - acc[p].peak_potential
               = IF inPeak THEN s.potential ELSE 0
          /\ acc'[p].peak_actual - acc[p].peak_actual
               = IF inPeak THEN s.actual ELSE 0

C11_PeakResult ==
  \A p \in DOMAIN planes :
    /\ (pc[p] = "SampleInstant" /\ cursor[p] = 1)
         => (acc[p].peak_potential = 0 /\ acc[p].peak_actual = 0)
    /\ pc[p] = "Done"
         => LET pp == acc[p].peak_potential
                pa == acc[p].peak_actual
            IN  results[p][1].peak_hours_loss_percent
                  = IF pp = 0 THEN 0 ELSE (1000 * (pp - pa)) \div pp

C11_PeakHours == []C11_PeakResult /\ [][C11_PeakStep]_vars

\* a finished plane with production both inside and outside the peak hours, the
\* 16:00 instant of some day among the accumulated ones, and a peak-hours loss
C11_Witness ==
  \E p \in DOMAIN planes :
    /\ pc[p] = "Done"
    /\ acc[p].peak_potential > 0
    /\ acc[p].peak_potential < acc[p].potential
    /\ results[p][1].peak_hours_loss_percent > 0
    /\ \E i \in DOMAIN SamplingGrid :
         /\ SamplingGrid[i].hour = 16
         /\ SampleOf(location, planes[p], obstructions, i).potential > 0

\* the sum of the twelve values of a per-month function
SumOfMonths(f) ==
  LET total[m \in 0..12] == IF m = 0 THEN 0 ELSE total[m - 1] + f[m]
  IN  total[12]

C12_MonthStep ==
  \A p \in DOMAIN planes :
    SamplingStep(p) =>
      LET s == CurrentSample(p)
          day == grid[p][cursor[p]]
      IN  \A m \in 1..12 :
            LET hit == s.sun.elevation > 0 /\ day.month = m
            IN  /\ acc'[p].month_potential[m] - acc[p].month_potential[m]
                     = IF hit THEN s.potential ELSE 0
                /\ acc'[p].month_actual[m] - acc[p].month_actual[m]
                     = IF hit THEN s.actual ELSE 0

C12_MonthResult ==
  \A p \in DOMAIN planes :
    /\ (pc[p] = "SampleInstant" /\ cursor[p] = 1)
         => \A m \in 1..12 :
              acc[p].month_potential[m] = 0 /\ acc[p].month_actual[m] = 0
    /\ pc[p] = "Done"
         => LET r == results[p][1]
            IN  /\ DOMAIN r.monthly_breakdown = 1..12
                /\ \A m \in 1..12 :
                     /\ r.monthly_breakdown[m].month = m
                     /\ r.monthly_breakdown[m].potential_day = acc[p].month_potential[m]
                     /\ r.monthly_breakdown[m].actual_day = acc[p].month_actual[m]
                /\ SumOfMonths([m \in 1..12 |-> r.monthly_breakdown[m].potential_day])
                     = r.potential_production
                /\ SumOfMonths([m \in 1..12 |-> r.monthly_breakdown[m].actual_day])
                     = r.annual_production

\* C12: the monthly breakdown of every plane result has exactly 12 entries, one
\* per calendar month; a month's potential and actual sums grow only by the
\* accumulated instants of that month's representative day, and the twelve
\* monthly potential (actual) sums add up to the annual potential (actual) sum.
C12_MonthlyBreakdown == []C12_MonthResult /\ [][C12_MonthStep]_vars

\* a finished, shaded plane at a site where some month has no production at all
\* and another month has some
C12_Witness ==
  \E p \in DOMAIN planes :
    /\ pc[p] = "Done"
    /\ results[p][1].annual_production < results[p][1].potential_production
    /\ \E m \in 1..12 : results[p][1].monthly_breakdown[m].potential_day = 0
    /\ \E m \in 1..12 : results[p][1].monthly_breakdown[m].actual_day > 0

C14_ShadowMonotone ==
  \A p \in DOMAIN planes :
    (pc[p] = "SampleInstant" /\ cursor[p] <= Len(grid[p])
       /\ CurrentSample(p).sun.elevation > 0)
      => LET az == CurrentSample(p).sun.azimuth
             roof == CellsOf[planes[p].polygon]
         IN  \A ob \in obstructions :
               \A e1, e2 \in (ClampElevationDeg + 1)..90 :
                 e1 < e2 =>
                   ShadedFraction(roof, CellsOf[ob.polygon], ob.height_m, az, e1)
                     >= ShadedFraction(roof, CellsOf[ob.polygon], ob.height_m, az, e2)

\* the current instant of plane p has a positive elevation below the
\* near-horizon threshold
NearHorizon(p) ==
  /\ CurrentSample(p).sun.elevation > 0
  /\ CurrentSample(p).sun.elevation < 2

C15_ClampStep ==
  \A p \in DOMAIN planes :
    (SamplingStep(p) /\ NearHorizon(p))
      => LET s == CurrentSample(p)
         IN  /\ s.shaded = IF obstructions = {} THEN 0 ELSE 1000
             /\ acc'[p].actual - acc[p].actual = (s.potential * (1000 - s.shaded)) \div 1000
             /\ acc'[p].potential - acc[p].potential = s.potential
             /\ pc'[p] = "SampleInstant"

C15_NoErrorSurfaced ==
  \A p \in DOMAIN planes :
    /\ pc[p] = "Failed" => ~ValidPolygon(planes[p].polygon)
    /\ (pc[p] = "SampleInstant" /\ cursor[p] <= Len(grid[p]))
         => (ENABLED Skip(p) \/ ENABLED Accumulate(p))

InvalidRing(ring) ==
  \/ Cardinality({ring[i] : i \in 1..Len(ring)}) < 3
  \/ RingArea2(ring) = 0

\* the polygon of plane p or of one of the obstructions is invalid
Rejectable(p) ==
  \/ InvalidRing(planes[p].polygon)
  \/ \E ob \in obstructions : InvalidRing(ob.polygon)

C16_NothingComputed ==
  \A p \in DOMAIN planes :
    /\ Rejectable(p) => pc[p] \in {"Validate", "Failed"}
    /\ pc[p] = "Failed"
         => /\ Rejectable(p)
            /\ grid[p] = << >>
            /\ cursor[p] = 0
            /\ acc[p].visited = << >>
            /\ acc[p].skipped + acc[p].accumulated = 0
            /\ results[p] = << >>

C16_RejectedAtValidation ==
  \A p \in DOMAIN planes :
    (pc[p] # "Failed" /\ pc'[p] = "Failed")
      => /\ pc[p] = "Validate"
         /\ UNCHANGED << grid, cursor, acc, results >>

Analysed == {p \in DOMAIN planes : pc[p] = "Done"}

\* sum of one loss field over the successfully analysed planes
TotalLoss(field) ==
  LET total[n \in 0..Len(planes)] ==
        IF n = 0 THEN 0
        ELSE total[n - 1] + (IF n \in Analysed THEN results[n][1][field] ELSE 0)
  IN  total[Len(planes)]

\* avg is the arithmetic mean (cut to a tenth of a percent) of the field over
\* the successfully analysed planes, 0 when there is none
IsMeanOfAnalysed(avg, field) ==
  LET n == Cardinality(Analysed)
  IN  IF n = 0 THEN avg = 0
      ELSE n * avg <= TotalLoss(field) /\ TotalLoss(field) < n * (avg + 1)

AmbientTemperatures == {-20, 0, 24, 25, 26, 35, 60, 275, 300}

setMode(m) ==
  /\ editor' = [editor EXCEPT !.mode = m]
  /\ UNCHANGED << engine, pages >>

\* the roof form is rendered in roof mode only
setRoofName(name) ==
  /\ editor.mode = "roof"
  /\ editor' = [editor EXCEPT !.roofName = name]
  /\ UNCHANGED << engine, pages >>

setRoofType(type) ==
  /\ editor.mode = "roof"
  /\ editor' = [editor EXCEPT !.roofType = type]
  /\ UNCHANGED << engine, pages >>

setRoofDirection(direction) ==
  /\ editor.mode = "roof"
  /\ editor' = [editor EXCEPT !.roofDirection = direction]
  /\ UNCHANGED << engine, pages >>

\* the steepness select is rendered for a sloped roof only
setRoofSteepness(steepness) ==
  /\ editor.mode = "roof"
  /\ editor.roofType = "sloped"
  /\ editor' = [editor EXCEPT !.roofSteepness = steepness]
  /\ UNCHANGED << engine, pages >>

\* the CREATED handler is registered once, by the effect that builds the
\* map, and reads the mode of that first render
MountedMode == InitialEditor.mode

DrawCreatedPolygon(coords) ==
  /\ editor' = IF MountedMode = "roof"
               THEN [editor EXCEPT !.drawnRoofCoords = coords]
               ELSE [editor EXCEPT !.drawnObsCoords = coords]
  /\ UNCHANGED << engine, pages >>

\* a marker becomes a small square around the point
DrawCreatedMarker(latlng) ==
  /\ editor' =
       [editor EXCEPT !.drawnObsCoords =
          << << latlng[1] - MarkerHalfSide, latlng[2] - MarkerHalfSide >>,
             << latlng[1] - MarkerHalfSide, latlng[2] + MarkerHalfSide >>,
             << latlng[1] + MarkerHalfSide, latlng[2] + MarkerHalfSide >>,
             << latlng[1] + MarkerHalfSide, latlng[2] - MarkerHalfSide >> >>]
  /\ UNCHANGED << engine, pages >>

\* the obstruction form is rendered in obstruction mode only
setObsType(type) ==
  /\ editor.mode = "obstruction"
  /\ editor' = [editor EXCEPT !.obsType = type]
  /\ UNCHANGED << engine, pages >>

setObsHeight(category) ==
  /\ editor.mode = "obstruction"
  /\ editor' = [editor EXCEPT !.obsHeight = category]
  /\ UNCHANGED << engine, pages >>

\* the argument handleObstructionSubmit passes to onObstructionAdd
ObstructionPayload ==
  [polygon_wkt |-> coordsToWKT(editor.drawnObsCoords),
   type        |-> editor.obsType,
   height_m    |-> heightCategoryToMeters(editor.obsHeight)]

handleObstructionSubmit ==
  /\ editor.mode = "obstruction"
  /\ IF Len(editor.drawnObsCoords) < 3
     THEN editor' = [editor EXCEPT !.alert = "Please mark an obstruction on the map first!"]
     ELSE editor' = [editor EXCEPT !.obstructionAdded = << ObstructionPayload >>,
                                   !.drawnObsCoords = << >>]
  /\ UNCHANGED << engine, pages >>

\* the payload with the tilt always taken from the steepness selection
RoofPlanePayloadSteepnessOnly ==
  [polygon_wkt |-> coordsToWKT(editor.drawnRoofCoords),
   name        |-> IF editor.roofName = "" THEN "Unnamed Roof" ELSE editor.roofName,
   tilt_deg    |-> steepnessToTilt(editor.roofSteepness),
   azimuth_deg |-> directionToAzimuth(editor.roofDirection)]

\* the argument handleRoofSubmit passes to onRoofPlaneAdd
RoofPlanePayload ==
  [polygon_wkt |-> coordsToWKT(editor.drawnRoofCoords),
   name        |-> IF editor.roofName = "" THEN "Unnamed Roof" ELSE editor.roofName,
   tilt_deg    |-> IF editor.roofType = "flat" THEN FlatRoofTilt
                   ELSE steepnessToTilt(editor.roofSteepness),
   azimuth_deg |-> directionToAzimuth(editor.roofDirection)]

handleRoofSubmit ==
  /\ editor.mode = "roof"
  /\ IF Len(editor.drawnRoofCoords) < 3
     THEN editor' = [editor EXCEPT !.alert = "Please draw a roof plane on the map first!"]
     ELSE editor' = [editor EXCEPT !.roofPlaneAdded = << RoofPlanePayload >>,
                                   !.drawnRoofCoords = << >>,
                                   !.roofName = "Main Roof"]
  /\ UNCHANGED << engine, pages >>

handleClear ==
  /\ editor' = [editor EXCEPT !.drawnRoofCoords = << >>, !.drawnObsCoords = << >>]
  /\ UNCHANGED << engine, pages >>

\* the editor on its own: no analysis is running
EditorInit == InitWith({LocationList[1]}, {{}}, {<< >>})

EditorNext ==
  \/ \E m \in {"roof", "obstruction"} : setMode(m)
  \/ \E name \in RoofNames : setRoofName(name)
  \/ \E type \in RoofTypes : setRoofType(type)
  \/ \E direction \in RoofDirections : setRoofDirection(direction)
  \/ \E steepness \in RoofSteepnesses : setRoofSteepness(steepness)
  \/ \E coords \in DrawnShapes : DrawCreatedPolygon(coords)
  \/ handleRoofSubmit
  \/ handleClear

EditorSpec == EditorInit /\ [][EditorNext]_vars

\* The drawn layer stays in the editable feature group, and the coordinates
\* the component holds are the layer's own array: dragging a vertex with the
\* edit tool moves the point the component will submit.
DragTargets == { << 0, 0 >>, << -2, 130 >>, << 96, 13 >>, << 40, 40 >> }

EditRoofVertex(i, target) ==
  /\ i \in 1..Len(editor.drawnRoofCoords)
  /\ editor' = [editor EXCEPT !.drawnRoofCoords[i] = target]
  /\ UNCHANGED << engine, pages >>

\* drawing, editing and submitting with the form left at its defaults
DrawNext ==
  \/ \E coords \in DrawnShapes : DrawCreatedPolygon(coords)
  \/ \E i \in 1..3, target \in DragTargets : EditRoofVertex(i, target)
  \/ handleRoofSubmit
  \/ handleClear

DrawSpec == EditorInit /\ [][DrawNext]_vars

\* the two modes of the editor: drawing and submitting in either mode
ModeNext ==
  \/ \E m \in {"roof", "obstruction"} : setMode(m)
  \/ \E coords \in DrawnShapes : DrawCreatedPolygon(coords)
  \/ \E latlng \in MarkerPositions : DrawCreatedMarker(latlng)
  \/ \E type \in ObsTypes : setObsType(type)
  \/ \E category \in ObsHeights : setObsHeight(category)
  \/ handleRoofSubmit
  \/ handleObstructionSubmit
  \/ handleClear

ModeSpec == EditorInit /\ [][ModeNext]_vars

\* the azimuth the documentation gives for a direction of the form, and the
\* default for anything else
DocumentedAzimuth(direction) ==
  CASE direction = "north"     -> 0
    [] direction = "northeast" -> 45
    [] direction = "east"      -> 90
    [] direction = "southeast" -> 135
    [] direction = "south"     -> 180
    [] direction = "southwest" -> 225
    [] direction = "west"      -> 270
    [] direction = "northwest" -> 315
    [] OTHER                   -> 180

\* a submission with a drawn roof: the plane handed to onRoofPlaneAdd carries
\* the documented azimuth of the direction chosen, and an input outside the
\* eight directions converts to the default
C20_SubmitStep ==
  (handleRoofSubmit /\ Len(editor.drawnRoofCoords) >= 3)
    => /\ editor'.roofPlaneAdded[1].azimuth_deg = DocumentedAzimuth(editor.roofDirection)
       /\ \A other \in {"unknown", ""} :
            directionToAzimuth(other) = DocumentedAzimuth(other)

\* C20: directionToAzimuth gives each of the eight directions of the form its
\* documented azimuth (north 0, northeast 45, east 90, southeast 135,
\* south 180, southwest 225, west 270, northwest 315) and anything else 180,
\* and the roof plane handed to onRoofPlaneAdd carries the documented azimuth
\* of the direction chosen in the form.
C20_DirectionAzimuth == [][C20_SubmitStep]_vars

\* the tilt the documentation gives for a steepness of the form
DocumentedTilt(steepness) ==
  CASE steepness = "flat"   -> 5
    [] steepness = "low"    -> 15
    [] steepness = "medium" -> 25
    [] steepness = "steep"  -> 40

\* a step of handleRoofSubmit that hands a plane to onRoofPlaneAdd
RoofSubmitted == handleRoofSubmit /\ Len(editor.drawnRoofCoords) >= 3

C21_SubmitStep ==
  RoofSubmitted =>
    editor'.roofPlaneAdded[1].tilt_deg =
      IF editor.roofType = "flat" THEN DocumentedTilt("flat")
      ELSE DocumentedTilt(editor.roofSteepness)

\* C21: a roof plane submitted with roof type flat has tilt 5 whatever
\* steepness the form holds; a sloped one has the tilt of its steepness
\* (low 15, medium 25, steep 40).
C21_FlatTilt == [][C21_SubmitStep]_vars

\* a flat roof was submitted while the form held steepness steep
C21_Witness ==
  /\ editor.roofPlaneAdded # << >>
  /\ editor.roofPlaneAdded[1].tilt_deg = 5
  /\ editor.roofType = "flat"
  /\ editor.roofSteepness = "steep"
  /\ editor.drawnRoofCoords = << >>

(***************************************************************************)
(* The conversion test script: TEST 4 calls coordsToWKT on a list of       *)
(* coordinates and prints the result.                                      *)
(***************************************************************************)
MaxPoints == 4

\* coordinates (lat, lng) the test draws its lists from
TestPoints == { << 0, 0 >>, << 96, 160 >>, << -2, 13 >> }

RECURSIVE CoordLists(_)
CoordLists(n) ==
  IF n = 0 THEN { << >> }
  ELSE CoordLists(n - 1) \cup
       { Append(coords, pt) : coords \in { c \in CoordLists(n - 1) : Len(c) = n - 1 },
                              pt \in TestPoints }

TestCoordsToWKT(coords) ==
  /\ script' = [input |-> coords, wkt |-> coordsToWKT(coords)]
  /\ UNCHANGED << engine, editor, projectsPage, detailPage >>





ScriptInit == InitWith({LocationList[1]}, {{}}, {<< >>})

ScriptNext == \E coords \in CoordLists(MaxPoints) : TestCoordsToWKT(coords)

ScriptSpec == ScriptInit /\ [][ScriptNext]_vars

\* the number a formatted coordinate denotes, in units of 10^-WktDecimals
WktValue(formatted) ==
  IF formatted.sign = "-" THEN -formatted.digits ELSE formatted.digits

\* the formatted number is the decimal nearest to coordinate * scale
FormatOf(formatted, pixels) ==
  LET diff == WktValue(formatted) * PixelsPerUnit - pixels * WktScale * Pow10(WktDecimals)
  IN  /\ 2 * diff <= PixelsPerUnit
      /\ 2 * diff >= -PixelsPerUnit

\* C22: for a non-empty list of n points, coordsToWKT gives a ring of n+1
\* points, the i-th being the i-th drawn point (x from lng, y from lat) and
\* the last identical to the first.
C22_ClosedRing ==
  LET n == Len(script.input)
  IN  n > 0 =>
        /\ Len(script.wkt) = n + 1
        /\ \A i \in 1..n :
             /\ FormatOf(script.wkt[i][1], script.input[i][2])
             /\ FormatOf(script.wkt[i][2], script.input[i][1])
        /\ script.wkt[n + 1] = script.wkt[1]

\* a list of the greatest length whose last point differs from its first
C22_Witness ==
  /\ Len(script.input) = MaxPoints
  /\ script.input[1] # script.input[MaxPoints]
  /\ Len(script.wkt) = MaxPoints + 1
  /\ script.wkt[MaxPoints] # script.wkt[1]

\* the distinct points of a WKT ring
RingVertices(ring) == { ring[i] : i \in 1..Len(ring) }

C23_SubmitStep ==
  handleRoofSubmit =>
    IF Len(editor.drawnRoofCoords) < 3
    THEN editor'.roofPlaneAdded = editor.roofPlaneAdded
    ELSE LET ring == editor'.roofPlaneAdded[1].polygon_wkt
         IN  /\ Cardinality(RingVertices(ring)) >= 3
             /\ ring[1] = ring[Len(ring)]

\* C23: every polygon handed to onRoofPlaneAdd has at least 3 distinct
\* vertices and its first point equals its last; a submit with no drawn shape
\* or fewer than 3 points hands nothing over.
C23_ValidRoofPolygon == [][C23_SubmitStep]_vars

C24_DrawStep ==
  \A coords \in DrawnShapes :
    DrawCreatedPolygon(coords) =>
      IF editor.mode = "obstruction"
      THEN /\ editor'.drawnObsCoords = coords
           /\ editor'.drawnRoofCoords = editor.drawnRoofCoords
      ELSE /\ editor'.drawnRoofCoords = coords
           /\ editor'.drawnObsCoords = editor.drawnObsCoords

\* C24: a polygon drawn while obstruction mode is selected becomes the
\* pending obstruction outline, and one drawn while roof mode is selected
\* becomes the pending roof outline, whatever mode switches came before.
C24_DrawFollowsMode == [][C24_DrawStep]_vars

(***************************************************************************)
(* Project detail page: fetching, the interval timer and the backend.      *)
(***************************************************************************)
\* time advances in steps of one second
TimeStep == 1000

\* the fetch answers with the backend's list; the interval is computed from
\* the new data and the timer restarted when it changes
FetchReturns ==
  /\ detailPage.fetching
  /\ LET fetched == << detailPage.backend >>
         next    == refetchInterval(detailPage.key, fetched)
     IN  detailPage' =
           [detailPage EXCEPT !.data = fetched,
                              !.fetching = FALSE,
                              !.interval = next,
                              !.elapsed = IF next = detailPage.interval THEN @ ELSE 0]
  /\ UNCHANGED << engine, editor, projectsPage, script >>

\* the fetch fails: the data fetched before stays
FetchFails ==
  /\ detailPage.fetching
  /\ detailPage' = [detailPage EXCEPT !.fetching = FALSE]
  /\ UNCHANGED << engine, editor, projectsPage, script >>

\* the interval timer comes due and refetches
PeriodicRefetch ==
  /\ detailPage.interval > 0
  /\ detailPage.elapsed = detailPage.interval
  /\ detailPage' =
       [detailPage EXCEPT !.fetching = TRUE,
                          !.cause = IF detailPage.fetching THEN @ ELSE "interval",
                          !.elapsed = 0]
  /\ UNCHANGED << engine, editor, projectsPage, script >>

\* a second passes; a timer that is due fires first
Tick ==
  /\ detailPage.interval > 0
  /\ detailPage.elapsed < detailPage.interval
  /\ detailPage' = [detailPage EXCEPT !.elapsed = @ + TimeStep]
  /\ UNCHANGED << engine, editor, projectsPage, script >>

\* runAnalysis / genReport: a new job is queued, the query invalidated
RunJob ==
  /\ detailPage' = [detailPage EXCEPT !.backend = @ \cup {"queued"},
                                      !.fetching = TRUE,
                                      !.cause = "invalidate"]
  /\ UNCHANGED << engine, editor, projectsPage, script >>

\* deleteAnalysis / deleteReport: an entry goes (the last of its status or
\* not), the query is invalidated
DeleteJob(status, last) ==
  /\ status \in detailPage.backend
  /\ detailPage' =
       [detailPage EXCEPT !.backend = IF last THEN @ \ {status} ELSE @,
                          !.fetching = TRUE,
                          !.cause = "invalidate"]
  /\ UNCHANGED << engine, editor, projectsPage, script >>

\* the worker moves a job on: queued to running, running to done or failed
NextStatuses(status) ==
  IF status = "queued" THEN {"running"}
  ELSE IF status = "running" THEN {"done", "failed"}
  ELSE {}

WorkerAdvances(status, next, last) ==
  /\ status \in detailPage.backend
  /\ next \in NextStatuses(status)
  /\ detailPage' =
       [detailPage EXCEPT !.backend = (IF last THEN @ \ {status} ELSE @) \cup {next}]
  /\ UNCHANGED << engine, editor, projectsPage, script >>

PollInit ==
  InitAll({LocationList[1]}, {{}}, {<< >>}, {InitialQuery(q) : q \in Queries})

PollNext ==
  \/ FetchReturns
  \/ FetchFails
  \/ PeriodicRefetch
  \/ Tick
  \/ RunJob
  \/ \E status \in Statuses, last \in BOOLEAN : DeleteJob(status, last)
  \/ \E status \in Statuses, next \in Statuses, last \in BOOLEAN :
       WorkerAdvances(status, next, last)

PollSpec == PollInit /\ [][PollNext]_vars

\* time passes, due timers fire and requests are answered
FairPollSpec ==
  PollSpec /\ WF_vars(Tick) /\ WF_vars(PeriodicRefetch) /\ WF_vars(FetchReturns)

\* the period the page is to poll a query with, in milliseconds
DocumentedPeriod(q) == IF q = "analysis" THEN 2000 ELSE 3000

\* the list fetched last has an entry that is queued or running
ListActive ==
  /\ detailPage.data # << >>
  /\ detailPage.data[1] \cap {"queued", "running"} # {}

\* the timer runs with the documented period exactly while the list fetched
\* last is active, and no more than a period passes without a refetch
C25_TimerFollowsList ==
  /\ ListActive =>
       /\ detailPage.interval = DocumentedPeriod(detailPage.key)
       /\ detailPage.elapsed <= DocumentedPeriod(detailPage.key)
  /\ ~ListActive => detailPage.interval = 0

\* a periodic refetch comes a full period after the one before
C25_RefetchStep ==
  PeriodicRefetch =>
    /\ ListActive
    /\ detailPage.elapsed = DocumentedPeriod(detailPage.key)

projects == IF projectsPage.data = << >> THEN {} ELSE projectsPage.data[1].items

\* const totalPages = pagination?.total_pages || 0
totalPages ==
  IF projectsPage.data = << >> THEN 0 ELSE projectsPage.data[1].total_pages

\* the page after its state changed to page number `page` and query `query`:
\* a new query key has no data yet and is fetched
WithKey(next, page, query) ==
  IF page = projectsPage.currentPage /\ query = projectsPage.searchQuery
  THEN [next EXCEPT !.currentPage = page, !.searchQuery = query]
  ELSE [next EXCEPT !.currentPage = page, !.searchQuery = query,
                    !.data = << >>, !.fetching = TRUE]

\* the page is covered by the confirmation dialog
ModalOpen == projectsPage.showConfirmModal

\* the toolbar, the rows and the pagination controls are rendered
ListShown == projects # {} /\ ~ModalOpen

ListFetchReturns ==
  /\ projectsPage.fetching
  /\ projectsPage' =
       [projectsPage EXCEPT
          !.data = << ListResponse(projectsPage.backend, projectsPage.currentPage,
                                   projectsPage.searchQuery) >>,
          !.fetching = FALSE]
  /\ UNCHANGED << engine, editor, detailPage, script >>

Min(a, b) == IF a <= b THEN a ELSE b

Max(a, b) == IF a >= b THEN a ELSE b

\* typing with the effect's cleanup left out: a timer already running is
\* kept
setSearchInputKeepTimer(text) ==
  /\ ~ModalOpen
  /\ text # projectsPage.searchInput
  /\ projectsPage' =
       [projectsPage EXCEPT !.searchInput = text,
                            !.idle = 0,
                            !.timer = IF @ = << >> THEN << DebounceMs >> ELSE @]
  /\ UNCHANGED << engine, editor, detailPage, script >>

\* typing in the search box: the effect clears the running timer and starts
\* a new one; idle is the time the box has stayed unchanged, counted up to
\* the debounce
setSearchInput(text) ==
  /\ ~ModalOpen
  /\ text # projectsPage.searchInput
  /\ projectsPage' = [projectsPage EXCEPT !.searchInput = text,
                                          !.idle = 0,
                                          !.timer = << DebounceMs >>]
  /\ UNCHANGED << engine, editor, detailPage, script >>

\* time passes; a timer that is due fires first
DebounceTick ==
  /\ projectsPage.timer # << 0 >>
  /\ projectsPage.timer # << >> \/ projectsPage.idle < DebounceMs
  /\ projectsPage' =
       [projectsPage EXCEPT
          !.timer = IF @ = << >> THEN @ ELSE << @[1] - DebounceStep >>,
          !.idle = Min(DebounceMs, @ + DebounceStep)]
  /\ UNCHANGED << engine, editor, detailPage, script >>

\* the timer's callback: setSearchQuery(searchInput); setCurrentPage(1)
DebounceFires ==
  /\ projectsPage.timer = << 0 >>
  /\ projectsPage' =
       WithKey([projectsPage EXCEPT !.timer = << >>], 1, projectsPage.searchInput)
  /\ UNCHANGED << engine, editor, detailPage, script >>

\* the pagination buttons
PaginationShown == ListShown /\ totalPages > 1

GoFirst ==
  /\ PaginationShown /\ projectsPage.currentPage # 1
  /\ projectsPage' = WithKey(projectsPage, 1, projectsPage.searchQuery)
  /\ UNCHANGED << engine, editor, detailPage, script >>

GoPrevious ==
  /\ PaginationShown /\ projectsPage.currentPage # 1
  /\ projectsPage' = WithKey(projectsPage, Max(1, projectsPage.currentPage - 1),
                             projectsPage.searchQuery)
  /\ UNCHANGED << engine, editor, detailPage, script >>

GoNext ==
  /\ PaginationShown /\ projectsPage.currentPage # totalPages
  /\ projectsPage' = WithKey(projectsPage,
                             Min(totalPages, projectsPage.currentPage + 1),
                             projectsPage.searchQuery)
  /\ UNCHANGED << engine, editor, detailPage, script >>

GoLast ==
  /\ PaginationShown /\ projectsPage.currentPage # totalPages
  /\ projectsPage' = WithKey(projectsPage, totalPages, projectsPage.searchQuery)
  /\ UNCHANGED << engine, editor, detailPage, script >>

handleSelectAll ==
  /\ ListShown
  /\ projectsPage' =
       [projectsPage EXCEPT !.selectedIds =
          IF Cardinality(projectsPage.selectedIds) = Cardinality(projects)
          THEN {} ELSE projects]
  /\ UNCHANGED << engine, editor, detailPage, script >>

handleToggleSelect(id) ==
  /\ ListShown
  /\ id \in projects
  /\ projectsPage' =
       [projectsPage EXCEPT !.selectedIds =
          IF id \in @ THEN @ \ {id} ELSE @ \cup {id}]
  /\ UNCHANGED << engine, editor, detailPage, script >>

handleDeleteClick(ids) ==
  /\ projectsPage' = [projectsPage EXCEPT !.deleteTarget = ids,
                                          !.showConfirmModal = TRUE]
  /\ UNCHANGED << engine, editor, detailPage, script >>

\* the Delete Selected button of the toolbar
DeleteSelectedClick ==
  /\ ListShown
  /\ projectsPage.selectedIds # {}
  /\ handleDeleteClick(projectsPage.selectedIds)

\* the delete button of a row
DeleteRowClick(id) ==
  /\ ListShown
  /\ id \in projects
  /\ handleDeleteClick({id})

handleConfirmDelete ==
  /\ ModalOpen
  /\ projectsPage.deleting = << >>
  /\ projectsPage' = [projectsPage EXCEPT !.deleting = << projectsPage.deleteTarget >>]
  /\ UNCHANGED << engine, editor, detailPage, script >>

handleCancelDelete ==
  /\ ModalOpen
  /\ projectsPage' = [projectsPage EXCEPT !.showConfirmModal = FALSE,
                                          !.deleteTarget = {}]
  /\ UNCHANGED << engine, editor, detailPage, script >>

\* every DELETE answered: deleteProjects.onSuccess
DeleteSucceeds ==
  /\ projectsPage.deleting # << >>
  /\ projectsPage.deleting[1] \subseteq projectsPage.backend
  /\ LET cleared == [projectsPage EXCEPT
                       !.backend = @ \ projectsPage.deleting[1],
                       !.deleting = << >>,
                       !.fetching = TRUE,
                       !.selectedIds = {},
                       !.showConfirmModal = FALSE]
     IN  projectsPage' =
           IF /\ Cardinality(projects) = Cardinality(projectsPage.selectedIds)
              /\ projectsPage.currentPage > 1
           THEN WithKey(cleared, projectsPage.currentPage - 1, projectsPage.searchQuery)
           ELSE cleared
  /\ UNCHANGED << engine, editor, detailPage, script >>

\* a DELETE is refused (the project is gone already): no callback runs
DeleteFails ==
  /\ projectsPage.deleting # << >>
  /\ ~(projectsPage.deleting[1] \subseteq projectsPage.backend)
  /\ projectsPage' = [projectsPage EXCEPT !.deleting = << >>]
  /\ UNCHANGED << engine, editor, detailPage, script >>

\* create.mutate and its onSuccess
CreateSucceeds ==
  /\ ~ModalOpen
  /\ projectsPage.nextId <= MaxProjects
  /\ projectsPage' =
       WithKey([projectsPage EXCEPT !.backend = @ \cup {projectsPage.nextId},
                                    !.nextId = @ + 1,
                                    !.fetching = TRUE],
               1, projectsPage.searchQuery)
  /\ UNCHANGED << engine, editor, detailPage, script >>

\* another client deletes a project
ExternalDelete(id) ==
  /\ id \in projectsPage.backend
  /\ projectsPage' = [projectsPage EXCEPT !.backend = @ \ {id}]
  /\ UNCHANGED << engine, editor, detailPage, script >>

ListInit == InitWith({LocationList[1]}, {{}}, {<< >>})

\* searching and paging only
SearchNext ==
  \/ ListFetchReturns
  \/ \E text \in SearchInputs : setSearchInput(text)
  \/ DebounceTick
  \/ DebounceFires
  \/ GoFirst
  \/ GoPrevious
  \/ GoNext
  \/ GoLast
  \/ CreateSucceeds

SearchSpec == ListInit /\ [][SearchNext]_vars

\* C26: the search query changes only when the search box has stayed
\* unchanged for 500 ms; it then becomes the value in the box, and the current
\* page becomes 1 in the same step.
C26_QueryStep ==
  projectsPage'.searchQuery # projectsPage.searchQuery =>
    /\ projectsPage.idle >= 500
    /\ projectsPage'.searchQuery = projectsPage.searchInput
    /\ projectsPage'.searchInput = projectsPage.searchInput
    /\ projectsPage'.currentPage = 1

C26_Debounce == [][C26_QueryStep]_vars

\* a search has been sent from the second page: the query is the text of
\* the box and the list is back on page 1
C26_Witness ==
  /\ projectsPage.searchQuery = "a"
  /\ projectsPage.searchInput = "a"
  /\ projectsPage.timer = << >>
  /\ projectsPage.currentPage = 1
  /\ projectsPage.nextId = InitialProjects + 1

\* selecting rows and deleting, over the pages of the unfiltered list
DeleteNext ==
  \/ ListFetchReturns
  \/ GoFirst
  \/ GoPrevious
  \/ GoNext
  \/ GoLast
  \/ handleSelectAll
  \/ \E id \in 1..MaxProjects : handleToggleSelect(id)
  \/ DeleteSelectedClick
  \/ \E id \in 1..MaxProjects : DeleteRowClick(id)
  \/ handleConfirmDelete
  \/ handleCancelDelete
  \/ DeleteSucceeds

DeleteSpec == ListInit /\ [][DeleteNext]_vars

C27_DeleteStep ==
  (/\ DeleteSucceeds
   /\ projectsPage.deleting[1] = projects
   /\ projectsPage.currentPage > 1)
    => projectsPage'.currentPage = projectsPage.currentPage - 1

\* C27: when a confirmed delete succeeds, the deleted projects were all the
\* projects shown and the current page is not the first, the list moves to
\* the previous page, for Delete Selected and for the delete button of a row.
C27_PreviousPageAfterDelete == [][C27_DeleteStep]_vars

\* selecting rows while paging and searching
SelectNext ==
  \/ ListFetchReturns
  \/ GoFirst
  \/ GoPrevious
  \/ GoNext
  \/ GoLast
  \/ handleSelectAll
  \/ \E id \in 1..MaxProjects : handleToggleSelect(id)
  \/ \E text \in SearchInputs : setSearchInput(text)
  \/ DebounceTick
  \/ DebounceFires

SelectSpec == ListInit /\ [][SelectNext]_vars

\* paging, searching, creating and deleting, with other clients deleting too
PagingNext ==
  \/ ListFetchReturns
  \/ GoFirst
  \/ GoPrevious
  \/ GoNext
  \/ GoLast
  \/ \E text \in SearchInputs : setSearchInput(text)
  \/ DebounceTick
  \/ DebounceFires
  \/ CreateSucceeds
  \/ \E id \in 1..MaxProjects : DeleteRowClick(id)
  \/ handleConfirmDelete
  \/ handleCancelDelete
  \/ DeleteSucceeds
  \/ DeleteFails
  \/ \E id \in 1..MaxProjects : ExternalDelete(id)

PagingSpec == ListInit /\ [][PagingNext]_vars

\* the list of the current page and query has been fetched
ListSettled == projectsPage.data # << >> /\ ~projectsPage.fetching

\* C29: once the list has been refetched, the current page is one of
\* 1..max(1, total pages), whatever page clicks, searches, creations and
\* deletions (by this page or on the backend) came before.
C29_PageInRange ==
  ListSettled =>
    /\ projectsPage.currentPage >= 1
    /\ projectsPage.currentPage <= Max(1, totalPages)

\* the select-all box of the toolbar
SelectAllChecked ==
  /\ Cardinality(projectsPage.selectedIds) = Cardinality(projects)
  /\ Cardinality(projects) > 0

\* C30: the selected ids are always among the projects shown on the current
\* page, and the select-all box is checked exactly when every project shown
\* is selected.
C30_SelectionVisible ==
  ListSettled =>
    /\ projectsPage.selectedIds \subseteq projects
    /\ SelectAllChecked <=> (projects # {} /\ projects \subseteq projectsPage.selectedIds)

(***************************************************************************)
(* Running sums of a plane's accumulation.                                 *)
(***************************************************************************)
\* one pair of running sums: the actual sum is between zero and the potential
Ordered(actual, potential) == 0 <= actual /\ actual <= potential

SumsOrdered(a) ==
  /\ Ordered(a.actual, a.potential)
  /\ Ordered(a.peak_actual, a.peak_potential)
  /\ \A m \in 1..MonthsPerYear : Ordered(a.month_actual[m], a.month_potential[m])

====
